---- MODULE Spec2Model ----
(***************************************************************************)
(* Model of the Costa runtime (packages/costa/src/runtime.ts): the plugin  *)
(* install / uninstall lifecycle over the install root, and the registry   *)
(* fetch with its in-memory HTTP cache.                                    *)
(***************************************************************************)
EXTENDS Integers, Sequences, FiniteSets, TLC

\* ------------------------------------------------------------------------
\* Bounds of the model
\* ------------------------------------------------------------------------
\* longest array handed to uninstall
MaxBatch == 2
\* largest number of conda dependencies a plugin declares
MaxDeps == 2

\* capacity of the HTTP cache in the model, standing in for HTTP_CACHE_LIMIT
CacheLimit == 1
\* most objects JSON.parse creates in one behaviour
MaxParsed == 3

\* ------------------------------------------------------------------------
\* Plugins, on-disk names
\* ------------------------------------------------------------------------
Names == {"a", "b"}
Versions == {"1"}
Protocols == {"npm", "fs"}

\* conda dependency maps, in key order; a value is "*", a git url or a version
DepList == <<(<<"numpy", "*">>), (<<"foo", "git+https://x/y">>), (<<"bar", "1.0">>)>>
\* a package.json without conda.dependencies
NoConda == [declared |-> FALSE, dependencies |-> <<>>]
CondaConfigs ==
  {NoConda} \cup
  { [declared |-> TRUE, dependencies |-> SubSeq(DepList, 1, n)] : n \in 0..MaxDeps }

PluginPackages ==
  [name : Names, version : Versions, from : Protocols, conda : CondaConfigs]

Metas == [name : Names, version : Versions]

\* the JavaScript values undefined and null
Undefined == "undefined"
Null == "null"

\* exit codes of a child process: 0 is success, anything else a failure
ExitCodes == {0, 1}

\* utils.getPluginDirectory: the directory a plugin gets under node_modules
getPluginDirectory(name, version, from) ==
  IF from = "npm" THEN name \o "@" \o version ELSE name

\* `${pkg.name}@${pkg.version}`, the name of the environment directory
pluginStdName(name, version) == name \o "@" \o version

\* pipcook.target.DESTPATH relative to {installDir}/node_modules
DESTPATH(pkg) == pkg.name \o "@" \o pkg.version

\* pipcook.target.PYTHONPATH: its directory under {installDir}/conda_envs
PYTHONPATH(pkg) == pkg.name \o "@" \o pkg.version

\* the entry `pnpm install <pluginAbsName>` adds under node_modules and to the
\* dependency map: the alias for a registry plugin, else the package's own name
pluginAbsName(pkg) ==
  IF pkg.from = "npm"
    THEN getPluginDirectory(pkg.name, pkg.version, "npm")
    ELSE pkg.name

\* createRequirements: one requirement line per conda dependency, in key order
GitUrls == {"git+https://x/y"}
startsWithGitHttps(v) == v \in GitUrls

RequirementLine(kv) ==
  IF kv[2] = "*" THEN kv[1]
  ELSE IF startsWithGitHttps(kv[2]) THEN kv[2]
  ELSE kv[1] \o "==" \o kv[2]

createRequirements(config) ==
  [i \in 1..Len(config.dependencies) |-> RequirementLine(config.dependencies[i])]

EnvDirs == { pluginStdName(n, v) : n \in Names, v \in Versions }

\* ------------------------------------------------------------------------
\* The registry, the HTTP cache
\* ------------------------------------------------------------------------
URIs == {"r/a", "r/b"}
Callers == {1, 2}

\* the etag and last-modified headers of a 200 response
Validators == {<<"e1", "t1">>, <<"e2", "t2">>}
\* the text of a 200 response
Texts == {"{v:1}", "{v:2}", "null", "<html>"}
StatusCodes == {200, 304, 404}

\* JSON.parse(text): a SyntaxError on text that is not JSON, else the value
JSONparse(text) ==
  IF text = "<html>" THEN [ok |-> FALSE, value |-> "undefined"]
  ELSE IF text = "null" THEN [ok |-> TRUE, value |-> "null"]
  ELSE IF text = "{v:1}" THEN [ok |-> TRUE, value |-> "v1"]
  ELSE [ok |-> TRUE, value |-> "v2"]

\* a parsed body: its value and the identity of the object holding it
NoBody == [value |-> "undefined", obj |-> 0]
Truthy(body) == body.value \notin {"undefined", "null"}

\* interface HTTPCache { etag, lastModified, body }; cached = FALSE is undefined
NoCache == [cached |-> FALSE, etag |-> "", lastModified |-> "", body |-> NoBody]

\* new LRUCache<HTTPCache>(limit): keys most recent first, and their values
EmptyLRUCache == [order |-> <<>>, store |-> [u \in URIs |-> NoCache]]

Without(seq, key) == SelectSeq(seq, LAMBDA k : k # key)

\* LRUCache.get(key): the value, or undefined
LRUCacheGet(c, key) == c.store[key]

\* LRUCache.get(key) moves a key it finds to the most recent position
LRUCacheTouch(c, key) ==
  IF c.store[key].cached
    THEN [c EXCEPT !.order = <<key>> \o Without(c.order, key)]
    ELSE c

\* LRUCache.put(key, value): store it as the most recent key and evict the
\* least recently used keys beyond the capacity
LRUCachePut(c, key, value) ==
  LET order == <<key>> \o Without(c.order, key)
      kept == SubSeq(order, 1, IF Len(order) > CacheLimit THEN CacheLimit ELSE Len(order))
      keys == { kept[i] : i \in 1..Len(kept) }
  IN [order |-> kept,
      store |-> [u \in URIs |->
                   IF u \notin keys THEN NoCache
                   ELSE IF u = key THEN value ELSE c.store[u]]]

IdleRequest == [pc |-> "idle", uri |-> "r/a", cache |-> NoCache,
                conditional |-> FALSE, statusCode |-> 0, body |-> NoBody,
                atStart |-> NoCache, atResponse |-> NoCache,
                gets |-> 0, overlapped |-> FALSE,
                resp |-> [etag |-> "", lastModified |-> "", body |-> ""]]

\* ------------------------------------------------------------------------
\* State
\* ------------------------------------------------------------------------
VARIABLES
  packageJson,    \* {installDir}/package.json: [exists, dependencies]
  node_modules,   \* the directories under {installDir}/node_modules
  conda_envs,     \* {installDir}/conda_envs: directory -> what it holds
  un,             \* the running uninstall call
  inst,           \* the running install call
  node,           \* installNodeModules of the install call
  py,             \* installPythonPackages of the install call
  call,           \* the disk when the caller's current call started
  httpCacheByURI, \* the in-memory HTTP cache: [order, store]
  requests,       \* the calls of requestHttpGetWithCache, by caller
  parsed,         \* the number of objects JSON.parse has created
  select,         \* a call of selectNpmPackage: its arguments and its outcome
  valid,          \* a call of fetch / fetchByStream from validAndAssign on
  runnable,       \* a call of createRunnable: its arguments and its outcome
  uns             \* the uninstall calls of callers that do not wait for each other

disk == [packageJson |-> packageJson, node_modules |-> node_modules,
         conda_envs |-> conda_envs]

installVars == <<packageJson, node_modules, conda_envs, un, inst, node, py, call>>
fetchVars == <<httpCacheByURI, requests, parsed>>
pureVars == <<select, valid, runnable>>
vars == <<installVars, fetchVars, pureVars, uns>>

IdleUn == [pc |-> "idle", isArray |-> FALSE, metas |-> <<>>, idx |-> 1,
           pkg |-> {}, success |-> FALSE, wrote |-> FALSE, removed |-> {},
           caller |-> "none", overlapped |-> FALSE]

\* the callers of the overlapping uninstall calls
UnCallers == {1, 2}

SomePkg == CHOOSE p \in PluginPackages : TRUE

IdleInst == [pc |-> "idle", pkg |-> SomePkg, force |-> FALSE,
             shortCircuit |-> FALSE, uninstalled |-> FALSE, reason |-> "none",
             attempted |-> FALSE, noToolchain |-> FALSE,
             spawned |-> 0, badExit |-> FALSE, afterFailed |-> FALSE,
             started |-> FALSE, envs0 |-> [d \in EnvDirs |-> "absent"],
             hadManifest |-> FALSE, nodeLog |-> <<>>]

IdleCall == [pc |-> "idle"]
IdlePy == [pc |-> "idle", i |-> 1, live |-> {}, log |-> <<>>]

\* an entry of the log of a pipeline: a filesystem call that completed, a
\* child process that was spawned, a child process that closed with a code
Ev(ev, cmd, n, arg, code) == [ev |-> ev, cmd |-> cmd, n |-> n, arg |-> arg, code |-> code]
Fs(cmd, code) == Ev("fs", cmd, 0, "", code)
Spawned(cmd, n, arg) == Ev("spawn", cmd, n, arg, 0)
Closed(cmd, n, arg, code) == Ev("close", cmd, n, arg, code)

\* the constructor: ensureDirSync(installDir) leaves an empty install root
InitRuntime ==
  /\ packageJson = [exists |-> FALSE, dependencies |-> {}]
  /\ node_modules = {}
  /\ conda_envs = [d \in EnvDirs |-> "absent"]
  /\ un = IdleUn
  /\ inst = IdleInst
  /\ node = "idle"
  /\ py = IdlePy
  /\ call = [op |-> "none", disk0 |-> [packageJson |-> [exists |-> FALSE, dependencies |-> {}],
                                      node_modules |-> {},
                                      conda_envs |-> [d \in EnvDirs |-> "absent"]]]
  /\ httpCacheByURI = EmptyLRUCache
  /\ requests = [f \in Callers |-> IdleRequest]
  /\ parsed = 0
  /\ uns = [c \in UnCallers |-> IdleUn]

Init ==
  /\ InitRuntime
  /\ select = IdleCall
  /\ valid = IdleCall
  /\ runnable = IdleCall

\* isInstalled(name): pathExists(`${installDir}/node_modules/${name}`)
isInstalled(name) == name \in node_modules

NodeRunning == node \in {"pathExists", "init", "pnpm"}
PyRunning == py.pc \in {"remove", "ensureDir", "writeFile", "access", "venv", "pip"}

\* the caller starts a call only when nothing of an earlier call is running
Quiescent ==
  /\ inst.pc \in {"idle", "returned", "rejected"}
  /\ un.pc \in {"idle", "returned", "threw"}
  /\ ~NodeRunning
  /\ ~PyRunning

\* ------------------------------------------------------------------------
\* uninstall
\* ------------------------------------------------------------------------
\* the argument of uninstall: one {name, version} or an array of them
UninstallArgs ==
  { [isArray |-> FALSE, metas |-> <<m>>] : m \in Metas } \cup
  { [isArray |-> TRUE, metas |-> s] :
      s \in UNION { [1..n -> Metas] : n \in 0..MaxBatch } }

StartUninstall(arg, caller) ==
  [IdleUn EXCEPT !.pc = "readJson", !.isArray = arg.isArray,
                 !.metas = arg.metas, !.caller = caller]

\* a caller invokes uninstall(pkgMeta)
UninstallCall ==
  /\ Quiescent
  /\ \E arg \in UninstallArgs : un' = StartUninstall(arg, "caller")
  /\ inst' = IdleInst
  /\ node' = "idle"
  /\ py' = IdlePy
  /\ call' = [op |-> "uninstall", disk0 |-> disk]
  /\ UNCHANGED <<packageJson, node_modules, conda_envs, fetchVars, pureVars, uns>>

\* readJson of the root manifest: the call keeps its own parsed copy, and
\* throws when the file is not there
readJson(frame, manifest) ==
  IF manifest.exists
    THEN [frame EXCEPT !.pc = "removePkg", !.pkg = manifest.dependencies]
    ELSE [frame EXCEPT !.pc = "threw"]

\* const pkg = await readJson(path.join(installDir, 'package.json'))
UninstallReadJson ==
  /\ un.pc = "readJson"
  /\ un' = readJson(un, packageJson)
  /\ UNCHANGED <<packageJson, node_modules, conda_envs, inst, node, py, call, fetchVars, pureVars, uns>>

\* removePkg, first half: if (!await this.isInstalled(name)) return false
RemovePkgSkip ==
  /\ un.pc = "removePkg"
  /\ un.idx <= Len(un.metas)
  /\ ~isInstalled(un.metas[un.idx].name)
  /\ un' = [un EXCEPT !.idx = @ + 1]
  /\ UNCHANGED <<packageJson, node_modules, conda_envs, inst, node, py, call, fetchVars, pureVars, uns>>

\* a deletion that drops every dependency instead of the one named
deleteDependencyAll(dependencies, name) == {}

\* if (pkg.dependencies && pkg.dependencies[name]) delete pkg.dependencies[name]
deleteDependency(dependencies, name) == dependencies \ {name}

\* removePkg returned true: the dependency is deleted from the call's copy
removedPkg(frame, m) ==
  [frame EXCEPT !.idx = @ + 1, !.pkg = deleteDependency(@, m.name),
                !.success = TRUE, !.removed = @ \cup {m}]

\* writeJson of the call's copy over the root manifest, if (success)
writeJson(frame, manifest) ==
  IF frame.success THEN [exists |-> TRUE, dependencies |-> frame.pkg] ELSE manifest

\* removePkg, second half: remove both directories, delete the dependency
RemovePkgRemove ==
  /\ un.pc = "removePkg"
  /\ un.idx <= Len(un.metas)
  /\ LET m == un.metas[un.idx] IN
       /\ isInstalled(m.name)
       /\ node_modules' = node_modules \ {m.name}
       /\ conda_envs' = [conda_envs EXCEPT ![pluginStdName(m.name, m.version)] = "absent"]
       /\ un' = removedPkg(un, m)
  /\ UNCHANGED <<packageJson, inst, node, py, call, fetchVars, pureVars, uns>>

\* if (success) await writeJson(...); return success
UninstallReturn ==
  /\ un.pc = "removePkg"
  /\ un.idx > Len(un.metas)
  /\ packageJson' = writeJson(un, packageJson)
  /\ un' = [un EXCEPT !.pc = "returned", !.wrote = un.success]
  /\ UNCHANGED <<node_modules, conda_envs, inst, node, py, call, fetchVars, pureVars, uns>>

Uninstall == UninstallReadJson \/ RemovePkgSkip \/ RemovePkgRemove \/ UninstallReturn

\* ------------------------------------------------------------------------
\* uninstall calls that overlap: a caller does not await the other's call
\* ------------------------------------------------------------------------
\* the install roots a runtime leaves behind: the manifest lists what is
\* under node_modules, an environment directory is absent or complete
PluginDirs == { pluginAbsName(p) : p \in PluginPackages }
InstallRoots ==
  { [packageJson |-> [exists |-> TRUE, dependencies |-> S], node_modules |-> S,
     conda_envs |-> [d \in EnvDirs |-> e]] :
       S \in SUBSET PluginDirs, e \in {"absent", "venv"} }

InitOverlap ==
  /\ \E root \in InstallRoots :
       /\ packageJson = root.packageJson
       /\ node_modules = root.node_modules
       /\ conda_envs = root.conda_envs
       /\ call = [op |-> "none", disk0 |-> root]
  /\ un = IdleUn
  /\ inst = IdleInst
  /\ node = "idle"
  /\ py = IdlePy
  /\ httpCacheByURI = EmptyLRUCache
  /\ requests = [f \in Callers |-> IdleRequest]
  /\ parsed = 0
  /\ select = IdleCall
  /\ valid = IdleCall
  /\ runnable = IdleCall
  /\ uns = [c \in UnCallers |-> IdleUn]

UnRunning(frame) == frame.pc \in {"readJson", "removePkg"}

\* caller c invokes uninstall(pkgMeta) while the other call may be running
OverlapCall(c) ==
  /\ uns[c].pc = "idle"
  /\ \E arg \in UninstallArgs :
       LET overlap == \E d \in UnCallers \ {c} : UnRunning(uns[d]) IN
       uns' = [d \in UnCallers |->
                IF d = c
                  THEN [StartUninstall(arg, "caller") EXCEPT !.overlapped = overlap]
                  ELSE [uns[d] EXCEPT !.overlapped = @ \/ UnRunning(uns[d])]]
  /\ UNCHANGED <<installVars, fetchVars, pureVars>>

OverlapReadJson(c) ==
  /\ uns[c].pc = "readJson"
  /\ uns' = [uns EXCEPT ![c] = readJson(@, packageJson)]
  /\ UNCHANGED <<installVars, fetchVars, pureVars>>

OverlapRemovePkgSkip(c) ==
  /\ uns[c].pc = "removePkg"
  /\ uns[c].idx <= Len(uns[c].metas)
  /\ ~isInstalled(uns[c].metas[uns[c].idx].name)
  /\ uns' = [uns EXCEPT ![c].idx = @ + 1]
  /\ UNCHANGED <<installVars, fetchVars, pureVars>>

OverlapRemovePkgRemove(c) ==
  /\ uns[c].pc = "removePkg"
  /\ uns[c].idx <= Len(uns[c].metas)
  /\ LET m == uns[c].metas[uns[c].idx] IN
       /\ isInstalled(m.name)
       /\ node_modules' = node_modules \ {m.name}
       /\ conda_envs' = [conda_envs EXCEPT ![pluginStdName(m.name, m.version)] = "absent"]
       /\ uns' = [uns EXCEPT ![c] = removedPkg(@, m)]
  /\ UNCHANGED <<packageJson, un, inst, node, py, call, fetchVars, pureVars>>

OverlapReturn(c) ==
  /\ uns[c].pc = "removePkg"
  /\ uns[c].idx > Len(uns[c].metas)
  /\ packageJson' = writeJson(uns[c], packageJson)
  /\ uns' = [uns EXCEPT ![c].pc = "returned", ![c].wrote = uns[c].success]
  /\ UNCHANGED <<node_modules, conda_envs, un, inst, node, py, call, fetchVars, pureVars>>

NextOverlap ==
  \E c \in UnCallers :
    \/ OverlapCall(c) \/ OverlapReadJson(c)
    \/ OverlapRemovePkgSkip(c) \/ OverlapRemovePkgRemove(c) \/ OverlapReturn(c)
SpecOverlap == InitOverlap /\ [][NextOverlap]_vars

\* ------------------------------------------------------------------------
\* install
\* ------------------------------------------------------------------------
\* a caller invokes install(pkg, {force}); with force the uninstall pass
\* starts at once: if (opts.force === true) await this.uninstall(pkg)
InstallCall ==
  /\ Quiescent
  /\ \E pkg \in PluginPackages, force \in BOOLEAN :
       /\ inst' = [IdleInst EXCEPT
                     !.pc = IF force THEN "uninstall" ELSE "isInstalled",
                     !.pkg = pkg, !.force = force,
                     !.afterFailed = (inst.pc = "rejected" /\ inst.pkg = pkg)]
       /\ un' = IF force
                  THEN StartUninstall([isArray |-> FALSE,
                         metas |-> <<[name |-> pkg.name, version |-> pkg.version]>>],
                         "install")
                  ELSE IdleUn
  /\ node' = "idle"
  /\ py' = IdlePy
  /\ call' = [op |-> "install", disk0 |-> disk]
  /\ UNCHANGED <<packageJson, node_modules, conda_envs, fetchVars, pureVars, uns>>

\* the awaited uninstall pass of a forced install has settled
InstallAfterUninstall ==
  /\ inst.pc = "uninstall"
  /\ un.pc \in {"returned", "threw"}
  /\ inst' = IF un.pc = "threw"
               THEN [inst EXCEPT !.pc = "rejected", !.reason = "uninstall"]
               ELSE [inst EXCEPT !.pc = "isInstalled", !.uninstalled = TRUE]
  /\ UNCHANGED <<packageJson, node_modules, conda_envs, un, node, py, call, fetchVars, pureVars, uns>>

\* if ((await this.isInstalled(pkg.name)) && !opts.force) return true
InstallIsInstalled ==
  /\ inst.pc = "isInstalled"
  /\ inst' = IF isInstalled(inst.pkg.name) /\ ~inst.force
               THEN [inst EXCEPT !.pc = "returned", !.shortCircuit = TRUE]
               ELSE [inst EXCEPT !.pc = "boa", !.attempted = TRUE]
  /\ UNCHANGED <<packageJson, node_modules, conda_envs, un, node, py, call, fetchVars, pureVars, uns>>

\* a join that resolves as soon as the module pipeline has resolved
PromiseAllFirst(i, n, p) ==
  IF i.pc # "join" THEN i
  ELSE IF n = "failed" \/ p.pc = "failed"
    THEN [i EXCEPT !.pc = "rejected", !.reason = "pipeline"]
  ELSE IF n = "done"
    THEN [i EXCEPT !.pc = "returned"]
  ELSE i

\* a join that settles only when both pipelines have settled
PromiseAllSettled(i, n, p) ==
  IF i.pc # "join" THEN i
  ELSE IF n \in {"done", "failed"} /\ p.pc \in {"done", "failed"}
    THEN IF n = "done" /\ p.pc = "done"
           THEN [i EXCEPT !.pc = "returned"]
           ELSE [i EXCEPT !.pc = "rejected", !.reason = "pipeline"]
  ELSE i

\* Promise.all over the two pipelines: it rejects as soon as one of them has
\* rejected and resolves when both have resolved
PromiseAll(i, n, p) ==
  IF i.pc # "join" THEN i
  ELSE IF n = "failed" \/ p.pc = "failed"
    THEN [i EXCEPT !.pc = "rejected", !.reason = "pipeline"]
  ELSE IF n = "done" /\ p.pc = "done"
    THEN [i EXCEPT !.pc = "returned"]
  ELSE i

\* a pipeline that is entered whatever the package.json declares
pyStartAlways(pkg) == "remove"

\* if (pkg.conda?.dependencies): the pipeline is entered when the key is
\* there, whatever it holds; otherwise installPythonPackages resolves at once
pyStart(pkg) == IF pkg.conda.declared THEN "remove" ELSE "done"

\* the boa source path is looked up, then both pipelines are started
InstallBoa ==
  /\ inst.pc = "boa"
  /\ \E found \in BOOLEAN :
       IF found
         THEN /\ node' = "pathExists"
              /\ py' = [IdlePy EXCEPT !.pc = pyStart(inst.pkg)]
              /\ inst' = [inst EXCEPT !.pc = "join", !.started = TRUE,
                                      !.envs0 = conda_envs]
         ELSE /\ inst' = [inst EXCEPT !.pc = "rejected", !.reason = "boa",
                                     !.noToolchain = TRUE]
              /\ UNCHANGED <<node, py>>
  /\ UNCHANGED <<packageJson, node_modules, conda_envs, un, call, fetchVars, pureVars, uns>>

\* a module pipeline that initializes the manifest every time
firstCommandInit(exists) == "init"

\* the first child process of installNodeModules
firstCommand(exists) == IF exists THEN "pnpm" ELSE "init"

\* installNodeModules: if (!await pathExists(package.json)) spawn `npm init -y`,
\* else spawn `npx pnpm install`
NodePathExists ==
  /\ node = "pathExists"
  /\ node' = firstCommand(packageJson.exists)
  /\ inst' = [inst EXCEPT !.spawned = @ + 1, !.hadManifest = packageJson.exists,
                          !.nodeLog = Append(@, Spawned(node', 1, ""))]
  /\ UNCHANGED <<packageJson, node_modules, conda_envs, un, py, call, fetchVars, pureVars, uns>>

\* `npm init -y` closes: on 0 the root manifest exists and pnpm is spawned
NodeInitClose ==
  /\ node = "init"
  /\ \E code \in ExitCodes :
       IF code = 0
         THEN /\ packageJson' = [packageJson EXCEPT !.exists = TRUE]
              /\ node' = "pnpm"
              /\ inst' = [inst EXCEPT !.spawned = @ + 1,
                            !.nodeLog = @ \o <<Closed("init", 1, "", 0), Spawned("pnpm", 1, "")>>]
         ELSE /\ node' = "failed"
              /\ inst' = PromiseAll([inst EXCEPT !.badExit = TRUE,
                            !.nodeLog = Append(@, Closed("init", 1, "", code))], node', py)
              /\ UNCHANGED packageJson
  /\ UNCHANGED <<node_modules, conda_envs, un, py, call, fetchVars, pureVars, uns>>

\* `npx pnpm install <pluginAbsName> -E -P` closes
NodePnpmClose ==
  /\ node = "pnpm"
  /\ \E code \in ExitCodes :
       IF code = 0
         THEN /\ node_modules' = node_modules \cup {pluginAbsName(inst.pkg)}
              /\ packageJson' = [exists |-> TRUE,
                   dependencies |-> packageJson.dependencies \cup {pluginAbsName(inst.pkg)}]
              /\ node' = "done"
              /\ inst' = PromiseAll([inst EXCEPT
                            !.nodeLog = Append(@, Closed("pnpm", 1, "", 0))], node', py)
         ELSE /\ node' = "failed"
              /\ inst' = PromiseAll([inst EXCEPT !.badExit = TRUE,
                            !.nodeLog = Append(@, Closed("pnpm", 1, "", code))], node', py)
              /\ UNCHANGED <<packageJson, node_modules>>
  /\ UNCHANGED <<conda_envs, un, py, call, fetchVars, pureVars, uns>>

InstallNodeModules == NodePathExists \/ NodeInitClose \/ NodePnpmClose

envDir == pluginStdName(inst.pkg.name, inst.pkg.version)
requirements == createRequirements(inst.pkg.conda)

\* await remove(envDir)
PyRemove ==
  /\ py.pc = "remove"
  /\ conda_envs' = [conda_envs EXCEPT ![envDir] = "absent"]
  /\ py' = [py EXCEPT !.pc = "ensureDir", !.log = Append(@, Fs("remove", 0))]
  /\ UNCHANGED <<packageJson, node_modules, un, inst, node, call, fetchVars, pureVars, uns>>

\* await ensureDir(envDir)
PyEnsureDir ==
  /\ py.pc = "ensureDir"
  /\ conda_envs' = [conda_envs EXCEPT ![envDir] = IF @ = "absent" THEN "empty" ELSE @]
  /\ py' = [py EXCEPT !.pc = "writeFile", !.log = Append(@, Fs("ensureDir", 0))]
  /\ UNCHANGED <<packageJson, node_modules, un, inst, node, call, fetchVars, pureVars, uns>>

\* await writeFile(`${envDir}/requirements.txt`, requirements.join('\n'))
PyWriteFile ==
  /\ py.pc = "writeFile"
  /\ conda_envs' = [conda_envs EXCEPT ![envDir] = IF @ = "empty" THEN "requirements" ELSE @]
  /\ py' = [py EXCEPT !.pc = "access", !.log = Append(@, Fs("writeFile", 0))]
  /\ UNCHANGED <<packageJson, node_modules, un, inst, node, call, fetchVars, pureVars, uns>>

\* a check of the toolchain whose failure is only logged
afterAccessIgnored(ok) == "venv"

\* try { readFile(.CONDA_INSTALL_DIR); access(python) } catch { throw }
afterAccess(ok) == IF ok THEN "venv" ELSE "failed"

\* read .CONDA_INSTALL_DIR and access(python); then spawn `python3 -m venv`
PyAccess ==
  /\ py.pc = "access"
  /\ \E ok \in BOOLEAN :
       LET code == IF ok THEN 0 ELSE 1 IN
       IF afterAccess(ok) = "venv"
         THEN /\ py' = [py EXCEPT !.pc = "venv",
                          !.log = @ \o <<Fs("access", code), Spawned("venv", 1, "")>>]
              /\ inst' = [inst EXCEPT !.spawned = @ + 1]
         ELSE /\ py' = [py EXCEPT !.pc = "failed", !.log = Append(@, Fs("access", code))]
              /\ inst' = PromiseAll([inst EXCEPT !.noToolchain = TRUE], node, py')
  /\ UNCHANGED <<packageJson, node_modules, conda_envs, un, node, call, fetchVars, pureVars, uns>>

\* a loop that spawns every requirement install without awaiting any
spawnPipsAll(reqs, closed) == IF closed = 0 THEN 1..Len(reqs) ELSE {}

\* for (const pkg of requirements) await spawnAsync(pip3, [..., pkg]): the
\* requirement installs spawned once `closed` of them have closed with 0
spawnPips(reqs, closed) == IF closed < Len(reqs) THEN {closed + 1} ELSE {}

\* the log entries of spawning the requirement installs of ns, in list order
RECURSIVE SpawnedPips(_, _)
SpawnedPips(reqs, ns) ==
  IF ns = {} THEN <<>>
  ELSE LET n == CHOOSE m \in ns : \A k \in ns : m <= k
       IN  <<Spawned("pip", n, reqs[n])>> \o SpawnedPips(reqs, ns \ {n})

\* `python3 -m venv envDir` closes; on 0 the first requirement is installed
PyVenvClose ==
  /\ py.pc = "venv"
  /\ \E code \in ExitCodes :
       IF code = 0
         THEN LET ns == spawnPips(requirements, 0) IN
              /\ conda_envs' = [conda_envs EXCEPT ![envDir] = "venv"]
              /\ IF ns # {}
                   THEN /\ py' = [py EXCEPT !.pc = "pip", !.i = 1, !.live = ns,
                                    !.log = @ \o <<Closed("venv", 1, "", 0)>>
                                              \o SpawnedPips(requirements, ns)]
                        /\ inst' = [inst EXCEPT !.spawned = @ + Cardinality(ns)]
                   ELSE /\ py' = [py EXCEPT !.pc = "done",
                                    !.log = Append(@, Closed("venv", 1, "", 0))]
                        /\ inst' = PromiseAll(inst, node, py')
         ELSE /\ py' = [py EXCEPT !.pc = "failed",
                          !.log = Append(@, Closed("venv", 1, "", code))]
              /\ inst' = PromiseAll([inst EXCEPT !.badExit = TRUE], node, py')
              /\ UNCHANGED conda_envs
  /\ UNCHANGED <<packageJson, node_modules, un, node, call, fetchVars, pureVars, uns>>

\* `pip3 install <requirement>` closes; on 0 the next requirement is installed
PyPipClose ==
  /\ py.pc = "pip"
  /\ \E n \in py.live, code \in ExitCodes :
       LET closed == Closed("pip", n, requirements[n], code) IN
       IF code = 0
         THEN LET ns == spawnPips(requirements, n)
                  live == (py.live \ {n}) \cup ns
              IN  IF live # {}
                    THEN /\ py' = [py EXCEPT !.i = IF ns # {} THEN n + 1 ELSE @,
                                     !.live = live,
                                     !.log = @ \o <<closed>> \o SpawnedPips(requirements, ns)]
                         /\ inst' = [inst EXCEPT !.spawned = @ + Cardinality(ns)]
                    ELSE /\ py' = [py EXCEPT !.pc = "done", !.live = {},
                                     !.log = Append(@, closed)]
                         /\ inst' = PromiseAll(inst, node, py')
         ELSE /\ py' = [py EXCEPT !.pc = "failed", !.live = @ \ {n},
                          !.log = Append(@, closed)]
              /\ inst' = PromiseAll([inst EXCEPT !.badExit = TRUE], node, py')
  /\ UNCHANGED <<packageJson, node_modules, conda_envs, un, node, call, fetchVars, pureVars, uns>>

InstallPythonPackages ==
  PyRemove \/ PyEnsureDir \/ PyWriteFile \/ PyAccess \/ PyVenvClose \/ PyPipClose

Install ==
  \/ InstallAfterUninstall \/ InstallIsInstalled \/ InstallBoa
  \/ InstallNodeModules \/ InstallPythonPackages

Next == UninstallCall \/ Uninstall \/ InstallCall \/ Install

Spec == Init /\ [][Next]_vars

\* ------------------------------------------------------------------------
\* requestHttpGetWithCache
\* ------------------------------------------------------------------------
\* the call up to `await get(uri, options)`: the cache is read, and the
\* conditional headers are set when the cached body is truthy
HttpGet(f) ==
  /\ requests[f].pc # "waiting"
  /\ \E uri \in URIs :
       LET cache == LRUCacheGet(httpCacheByURI, uri) IN
         /\ requests' = [g \in Callers |->
              IF g = f
                THEN [IdleRequest EXCEPT !.pc = "waiting", !.uri = uri, !.cache = cache,
                        !.conditional = (cache.cached /\ Truthy(cache.body)),
                        !.atStart = httpCacheByURI.store[uri], !.gets = 1,
                        !.overlapped = \E h \in Callers \ {f} :
                           requests[h].pc = "waiting" /\ requests[h].uri = uri]
                ELSE IF requests[g].pc = "waiting" /\ requests[g].uri = uri
                  THEN [requests[g] EXCEPT !.overlapped = TRUE]
                  ELSE requests[g]]
         /\ httpCacheByURI' = LRUCacheTouch(httpCacheByURI, uri)
  /\ UNCHANGED <<parsed, installVars, pureVars, uns>>

\* a put that keeps the entry a URI already has
putResponseIfAbsent(c, uri, v, body) ==
  IF c.store[uri].cached THEN c
  ELSE LRUCachePut(c, uri,
         [cached |-> TRUE, etag |-> v[1], lastModified |-> v[2], body |-> body])

\* httpCacheByURI.put(uri, { etag, lastModified, body })
putResponse(c, uri, v, body) ==
  LRUCachePut(c, uri,
    [cached |-> TRUE, etag |-> v[1], lastModified |-> v[2], body |-> body])

\* resp.statusCode === 200: parse the body, put it in the cache, return it
Response200(f) ==
  /\ requests[f].pc = "waiting"
  /\ parsed < MaxParsed
  /\ \E v \in Validators, text \in Texts :
       LET json == JSONparse(text)
           body == [value |-> json.value, obj |-> parsed + 1]
       IN IF json.ok
            THEN /\ parsed' = parsed + 1
                 /\ httpCacheByURI' = putResponse(httpCacheByURI, requests[f].uri, v, body)
                 /\ requests' = [requests EXCEPT ![f].pc = "returned",
                                   ![f].statusCode = 200, ![f].body = body,
                                   ![f].resp = [etag |-> v[1], lastModified |-> v[2],
                                                body |-> text]]
            ELSE /\ requests' = [requests EXCEPT ![f].pc = "failed", ![f].statusCode = 200]
                 /\ UNCHANGED <<parsed, httpCacheByURI>>
  /\ UNCHANGED <<installVars, pureVars, uns>>

\* a 304 branch that reads the cache again when the response arrives
cachedBodyReread(request, c) == LRUCacheGet(c, request.uri).body

\* return cache.body: the body of the entry read when the call started
cachedBody(request, c) == request.cache.body

\* resp.statusCode === 304: return cache.body, a TypeError without a cache
Response304(f) ==
  /\ requests[f].pc = "waiting"
  /\ requests' = [requests EXCEPT
       ![f].pc = IF requests[f].cache.cached THEN "returned" ELSE "failed",
       ![f].statusCode = 304,
       ![f].atResponse = httpCacheByURI.store[requests[f].uri],
       ![f].body = IF requests[f].cache.cached
                     THEN cachedBody(requests[f], httpCacheByURI) ELSE NoBody]
  /\ UNCHANGED <<parsed, httpCacheByURI, installVars, pureVars, uns>>

\* a failure branch that also drops the cache entry of the URI
ResponseOtherDropsEntry(f) ==
  /\ requests[f].pc = "waiting"
  /\ \E code \in StatusCodes \ {200, 304} :
       requests' = [requests EXCEPT ![f].pc = "failed", ![f].statusCode = code]
  /\ httpCacheByURI' = [httpCacheByURI EXCEPT
       !.order = Without(@, requests[f].uri), !.store[requests[f].uri] = NoCache]
  /\ UNCHANGED <<parsed, installVars, pureVars, uns>>

\* any other status: throw new TypeError(resp.message)
ResponseOther(f) ==
  /\ requests[f].pc = "waiting"
  /\ \E code \in StatusCodes \ {200, 304} :
       requests' = [requests EXCEPT ![f].pc = "failed", ![f].statusCode = code]
  /\ UNCHANGED <<parsed, httpCacheByURI, installVars, pureVars, uns>>

NextFetch ==
  \E f \in Callers : HttpGet(f) \/ Response200(f) \/ Response304(f) \/ ResponseOther(f)

SpecFetch == Init /\ [][NextFetch]_vars

\* a spawned child process closes and a pending filesystem call completes:
\* the steps of a started pipeline are taken eventually
FairSpec ==
  Spec /\ WF_vars(InstallNodeModules) /\ WF_vars(InstallPythonPackages)

\* ------------------------------------------------------------------------
\* selectNpmPackage
\* ------------------------------------------------------------------------
\* a manifest of the registry metadata: metadata.versions[key]
Manifest(key) == "package.json of " \o key
\* the version keys of a metadata record, the values of its dist-tags
VersionKeys == {"1.2.0", "2.0.0-beta"}
TagValues == {Undefined, "1.2.0", "2.0.0-beta", "3.0.0"}
\* source.schema.version: null when the name carries no version
SchemaVersions == {Null, "beta", "latest", "1.2.0", "2.0.0-beta", "^1.2.0"}
Metadatas ==
  [latest : TagValues, beta : {Undefined, Null, "2.0.0-beta"}, versions : SUBSET VersionKeys]
Sources == [schema : [version : SchemaVersions]]

\* metadata.versions[key]: undefined for a key the object does not have
versionsAt(metadata, key) ==
  IF key \in metadata.versions THEN Manifest(key) ELSE Undefined

Returns(value) == [threw |-> FALSE, value |-> value]
Throws == [threw |-> TRUE, value |-> Undefined]

\* a selection that resolves a caret range to the version it names
selectNpmPackageRange(metadata, source) ==
  LET version == source.schema.version IN
  IF version = "^1.2.0" THEN Returns(versionsAt(metadata, "1.2.0"))
  ELSE IF version = "beta"
    THEN IF metadata.beta \in {Undefined, Null} THEN Throws
         ELSE Returns(versionsAt(metadata, metadata.beta))
  ELSE IF version \in {"latest", Null} THEN Returns(versionsAt(metadata, metadata.latest))
  ELSE Returns(versionsAt(metadata, version))

selectNpmPackage(metadata, source) ==
  LET version == source.schema.version IN
  IF version = "beta"
    THEN IF metadata.beta \in {Undefined, Null}   \* dist-tags.beta == null
           THEN Throws
           ELSE Returns(versionsAt(metadata, metadata.beta))
  ELSE IF version = "latest"
    THEN Returns(versionsAt(metadata, metadata.latest))
  ELSE IF version # Null                          \* if (version)
    THEN Returns(versionsAt(metadata, version))
  ELSE Returns(versionsAt(metadata, metadata.latest))

InitSelect ==
  /\ InitRuntime
  /\ valid = IdleCall
  /\ runnable = IdleCall
  /\ \E metadata \in Metadatas, source \in Sources :
       select = [pc |-> "called", metadata |-> metadata, source |-> source,
                 result |-> Returns(Undefined)]

\* pkg = selectNpmPackage(meta, source)
SelectNpmPackage ==
  /\ select.pc = "called"
  /\ select' = [select EXCEPT !.pc = "done",
                  !.result = selectNpmPackage(select.metadata, select.source)]
  /\ UNCHANGED <<installVars, fetchVars, uns, valid, runnable>>

NextSelect == SelectNpmPackage
SpecSelect == InitSelect /\ [][NextSelect]_vars

\* ------------------------------------------------------------------------
\* validAndAssign at the end of fetch and fetchByStream
\* ------------------------------------------------------------------------
\* process.env.NODE_ENV
NodeEnvs == {"test", "production", Undefined}
\* the source of a fetch; none before fetchByStream has built its own
NoSource == [from |-> Undefined, name |-> Undefined]
FetchSources == [from : {"npm", "git", "fs", "tarball"}, name : Names]
\* pkg.pipcook of a fetched package.json: absent, a falsy value, a truthy
\* primitive, or an object (which may already carry a source)
NoTarget == [PYTHONPATH |-> Undefined, DESTPATH |-> Undefined]
Pipcooks ==
  [kind : {"undefined", "null", "false", "string"}, source : {NoSource}, target : {NoTarget}]
    \cup [kind : {"object"}, source : {NoSource} \cup [from : {"fs"}, name : {"old"}],
          target : {NoTarget}]
\* what a fetch hands to validAndAssign: no package at all, or a package.json
NoPackage == [defined |-> FALSE, name |-> Undefined, version |-> Undefined,
              pipcook |-> [kind |-> "undefined", source |-> NoSource, target |-> NoTarget]]
FetchedPackages ==
  {NoPackage} \cup [defined : {TRUE}, name : Names, version : Versions, pipcook : Pipcooks]

\* !pkg.pipcook is false
TruthyPipcook(pipcook) == pipcook.kind \in {"string", "object"}

\* validPackage throws: reading .pipcook of undefined, or a falsy pkg.pipcook
validPackageThrows(pkg) == ~pkg.defined \/ ~TruthyPipcook(pkg.pipcook)

\* assignPackage throws: the module is strict-mode code, where setting a
\* property of a primitive is a TypeError
assignPackageThrows(pkg) == ~pkg.defined \/ pkg.pipcook.kind # "object"

assignPackage(pkg, source) ==
  [pkg EXCEPT !.pipcook.source = source,
              !.pipcook.target = [PYTHONPATH |-> PYTHONPATH(pkg), DESTPATH |-> DESTPATH(pkg)]]

\* a validAndAssign that swallows the error whatever NODE_ENV is
validAndAssignLenient(pkg, source, env) ==
  IF validPackageThrows(pkg) \/ assignPackageThrows(pkg)
    THEN [threw |-> FALSE, warned |-> TRUE, value |-> pkg]
    ELSE [threw |-> FALSE, warned |-> FALSE, value |-> assignPackage(pkg, source)]

validAndAssign(pkg, source, env) ==
  IF validPackageThrows(pkg) \/ assignPackageThrows(pkg)
    THEN IF env = "test"
           THEN [threw |-> FALSE, warned |-> TRUE, value |-> pkg]
           ELSE [threw |-> TRUE, warned |-> FALSE, value |-> NoPackage]
    ELSE [threw |-> FALSE, warned |-> FALSE, value |-> assignPackage(pkg, source)]

InitValid ==
  /\ InitRuntime
  /\ select = IdleCall
  /\ runnable = IdleCall
  /\ \E env \in NodeEnvs, pkg \in FetchedPackages :
       \/ \E source \in FetchSources :
            valid = [pc |-> "validAndAssign", entry |-> "fetch", NODE_ENV |-> env,
                     pkg |-> pkg, source |-> source,
                     result |-> [threw |-> FALSE, warned |-> FALSE, value |-> NoPackage]]
       \/ valid = [pc |-> "source", entry |-> "fetchByStream", NODE_ENV |-> env,
                   pkg |-> pkg, source |-> NoSource,
                   result |-> [threw |-> FALSE, warned |-> FALSE, value |-> NoPackage]]

\* fetchByStream builds the source from the package.json of the tarball
FetchByStreamSource ==
  /\ valid.pc = "source"
  /\ IF valid.pkg.defined
       THEN valid' = [valid EXCEPT !.pc = "validAndAssign",
                        !.source = [from |-> "tarball",
                                    name |-> valid.pkg.name \o "@" \o valid.pkg.version]]
       ELSE valid' = [valid EXCEPT !.pc = "threw", !.result.threw = TRUE]
  /\ UNCHANGED <<installVars, fetchVars, uns, select, runnable>>

\* return this.validAndAssign(pkg, source)
ValidAndAssign ==
  /\ valid.pc = "validAndAssign"
  /\ LET result == validAndAssign(valid.pkg, valid.source, valid.NODE_ENV) IN
       valid' = [valid EXCEPT !.pc = IF result.threw THEN "threw" ELSE "returned",
                              !.result = result]
  /\ UNCHANGED <<installVars, fetchVars, uns, select, runnable>>

NextValid == FetchByStreamSource \/ ValidAndAssign
SpecValid == InitValid /\ [][NextValid]_vars

\* ------------------------------------------------------------------------
\* createRunnable
\* ------------------------------------------------------------------------
\* this.options.installDir and process.env.NODE_PATH
InstallDirs == {"/plugins", "/home/p"}
NodePaths == {Undefined, "", "/usr/lib"}

\* a customEnv value: kind "missing" is an object without the key
NoEnv(kind) == [kind |-> kind, NODE_PATH |-> Undefined, by |-> Undefined]
CallerEnvs ==
  { NoEnv(kind) : kind \in {"missing", "undefined", "null", "empty"} }
    \cup {[kind |-> "object", NODE_PATH |-> "/evil", by |-> "caller"]}
\* the argument of createRunnable: omitted, or a BootstrapArg record
NoArgs == [given |-> FALSE, customEnv |-> NoEnv("missing"), id |-> Undefined,
           logger |-> Undefined]
BootstrapArgs ==
  {NoArgs} \cup
  [given : {TRUE}, customEnv : CallerEnvs, id : {Undefined, "x"}, logger : {Undefined, "log"}]

\* path.join(this.options.installDir, 'node_modules')
pluginNodePath(installDir) == installDir \o "/node_modules"

\* `${(process.env.NODE_PATH || '')}:${pluginNodePath}`
injectedEnv(installDir, nodePath) ==
  [kind |-> "object",
   NODE_PATH |-> (IF nodePath \in {Undefined, ""} THEN "" ELSE nodePath)
                   \o ":" \o pluginNodePath(installDir),
   by |-> "runtime"]

\* args?.customEnv is truthy
TruthyCustomEnv(args) == args.given /\ args.customEnv.kind = "object"

\* { customEnv: {...}, ...args }: an own key of args, whatever its value,
\* replaces the key written before the spread
bootstrapConfig(args, installDir, nodePath) ==
  [customEnv |-> IF args.given /\ args.customEnv.kind # "missing"
                   THEN args.customEnv
                   ELSE injectedEnv(installDir, nodePath),
   id |-> args.id, logger |-> args.logger]

InitRunnable ==
  /\ InitRuntime
  /\ select = IdleCall
  /\ valid = IdleCall
  /\ \E args \in BootstrapArgs, installDir \in InstallDirs, nodePath \in NodePaths :
       runnable = [pc |-> "called", args |-> args, installDir |-> installDir,
                   NODE_PATH |-> nodePath,
                   config |-> [customEnv |-> NoEnv("missing"), id |-> Undefined,
                               logger |-> Undefined]]

CreateRunnable ==
  /\ runnable.pc = "called"
  /\ IF TruthyCustomEnv(runnable.args)
       THEN runnable' = [runnable EXCEPT !.pc = "threw"]
       ELSE runnable' = [runnable EXCEPT !.pc = "bootstrapped",
              !.config = bootstrapConfig(runnable.args, runnable.installDir,
                                         runnable.NODE_PATH)]
  /\ UNCHANGED <<installVars, fetchVars, uns, select, valid>>

NextRunnable == CreateRunnable
SpecRunnable == InitRunnable /\ [][NextRunnable]_vars

\* ------------------------------------------------------------------------
\* Properties of install and uninstall
\* ------------------------------------------------------------------------
InstallSettled == inst.pc \in {"returned", "rejected"}
UninstallSettled == un.pc \in {"returned", "threw"}

\* the entries of the running uninstall that isInstalled found when it started
InstalledAtStart(m) == m.name \in call.disk0.node_modules
Requested == { un.metas[i] : i \in 1..Len(un.metas) }

\* C1: a forced install runs its uninstall pass before the "already
\* installed" check, never takes the short-circuit, and from every on-disk
\* state goes on to provisioning.
C1_ForcedInstallProvisions ==
  inst.force =>
    /\ inst.pc \in {"isInstalled", "boa", "join"} => inst.uninstalled
    /\ ~inst.shortCircuit
    /\ InstallSettled => inst.attempted

\* C2: when the plugin's module directory node_modules/{name}@{version}
\* (DESTPATH) exists and force is not set, install returns true by the
\* short-circuit, spawns nothing and leaves the disk as it was.
C2_InstalledIsNoOp ==
  (call.op = "install" /\ ~inst.force
     /\ DESTPATH(inst.pkg) \in call.disk0.node_modules) =>
    /\ inst.pc \in {"isInstalled", "returned"}
    /\ inst.pc = "returned" => inst.shortCircuit
    /\ inst.spawned = 0
    /\ disk = call.disk0

\* C3: install returns true after provisioning only when both pipelines have
\* completed successfully; after a non-zero exit of any provisioning
\* subprocess install has not returned true.
C3_TrueOnlyIfBothPipelinesSucceed ==
  /\ (inst.pc = "returned" /\ ~inst.shortCircuit) => (node = "done" /\ py.pc = "done")
  /\ inst.badExit => inst.pc = "rejected"

\* C3 witness: install has returned true after both pipelines ran, the
\* interpreter environment included.
C3_Witness ==
  /\ inst.pc = "returned" /\ ~inst.shortCircuit
  /\ inst.pkg.conda.declared /\ Len(requirements) >= 1
  /\ inst.spawned >= 3

\* C4 as claimed: when install's failure has reached the caller, no pipeline
\* of that install is still running.
C4_FailureAfterOtherPipelineCompleted ==
  (inst.pc = "rejected" /\ inst.reason = "pipeline") => (~NodeRunning /\ ~PyRunning)

C4_NotCancelled ==
  /\ inst.pc = "join" => (node # "failed" /\ py.pc # "failed")
  /\ (inst.pc = "rejected" /\ NodeRunning) => ENABLED InstallNodeModules
  /\ (inst.pc = "rejected" /\ PyRunning) => ENABLED InstallPythonPackages

\* C4 amended: the failure of a pipeline reaches the caller at once (install
\* is never still pending with a failed pipeline), and the other pipeline is
\* not cancelled: while it is running after the rejection its next step stays
\* enabled, and it runs to completion.
C4_FailsAtOnceOtherRunsOn ==
  /\ []C4_NotCancelled
  /\ (inst.pc = "rejected" /\ (NodeRunning \/ PyRunning)) ~> (~NodeRunning /\ ~PyRunning)

\* C4 witness: install has been rejected by the module pipeline while the
\* interpreter pipeline is still running.
C4_Witness ==
  /\ inst.pc = "rejected" /\ inst.reason = "pipeline"
  /\ node = "failed" /\ PyRunning

\* C5: a forced install that follows a failed install of the same plugin, and
\* in which the toolchain is found and every subprocess exits 0, returns true.
C5_ForcedReinstallRecovers ==
  (inst.afterFailed /\ inst.force /\ InstallSettled
     /\ ~inst.badExit /\ ~inst.noToolchain) => inst.pc = "returned"

\* C6: uninstall returns true exactly when a requested entry was installed and
\* removed, rewrites the root manifest only then, and otherwise returns false
\* and leaves the manifest and both directory trees unchanged.
C6_TrueIffRemoved ==
  (call.op = "uninstall" /\ UninstallSettled) =>
    IF \E m \in Requested : InstalledAtStart(m)
      THEN /\ un.pc = "returned" /\ un.success /\ un.wrote
           /\ \A m \in Requested : m.name \notin node_modules
      ELSE /\ un.pc = "returned" /\ ~un.success /\ ~un.wrote
           /\ disk = call.disk0

PartialBatch ==
  /\ call.op = "uninstall" /\ un.isArray
  /\ \E m \in Requested : InstalledAtStart(m)
  /\ \E m \in Requested : ~InstalledAtStart(m)

C8_UninstallNeverThrows == un.pc # "threw"

\* C9: after uninstall has returned true for a plugin, its module directory
\* node_modules/{name}@{version} and its environment directory are gone and
\* the root manifest has no entry for it.
C9_NoArtifactLeft ==
  (call.op = "uninstall" /\ un.pc = "returned" /\ un.success) =>
    \A m \in un.removed :
      /\ m.name \o "@" \o m.version \notin node_modules
      /\ conda_envs[pluginStdName(m.name, m.version)] = "absent"
      /\ packageJson.dependencies \cap {m.name, m.name \o "@" \o m.version} = {}
\* ------------------------------------------------------------------------
\* Properties of the registry fetch
\* ------------------------------------------------------------------------
\* C10: a fetch of a URI that had a cache entry when it started and that
\* receives 304 returns the body object of that entry, and the step that
\* handles the 304 parses nothing and leaves every cache entry as it is.
C10_NotModifiedReturnsCachedBody ==
  /\ [](\A f \in Callers :
          (requests[f].statusCode = 304 /\ requests[f].atStart.cached) =>
            /\ requests[f].pc = "returned"
            /\ requests[f].body = requests[f].atStart.body)
  /\ [][\A f \in Callers :
          (requests[f].pc = "waiting" /\ requests'[f].statusCode = 304) =>
            /\ httpCacheByURI'.store = httpCacheByURI.store
            /\ parsed' = parsed]_vars

\* C10 witness: a 304 has returned the body cached when the fetch started,
\* after another fetch had replaced the cache entry of that URI in between.
C10_Witness ==
  \E f \in Callers :
    /\ requests[f].pc = "returned" /\ requests[f].statusCode = 304
    /\ requests[f].atStart.cached
    /\ requests[f].atResponse.cached
    /\ requests[f].atResponse.body # requests[f].atStart.body
\* C11: a fetch whose response status is neither 200 nor 304 fails, returns
\* no body, has issued its one request only, and no step of that fetch
\* changes an entry of the HTTP cache or parses anything.
C11_OtherStatusFailsCacheUntouched ==
  /\ [](\A f \in Callers :
          (requests[f].pc # "waiting" /\ requests[f].statusCode \notin {0, 200, 304}) =>
            /\ requests[f].pc = "failed"
            /\ requests[f].body = NoBody
            /\ requests[f].gets = 1)
  /\ [][\A f \in Callers :
          (requests'[f] # requests[f] /\ requests'[f].statusCode \notin {200, 304}
             /\ requests'[f].overlapped = requests[f].overlapped) =>
            /\ httpCacheByURI'.store = httpCacheByURI.store
            /\ parsed' = parsed]_vars

\* C11 witness: a fetch of a cached URI has failed on a 404 and the entry it
\* found when it started is still the entry of the cache.
C11_Witness ==
  \E f \in Callers :
    /\ requests[f].pc = "failed" /\ requests[f].statusCode = 404
    /\ requests[f].atStart.cached
    /\ httpCacheByURI.store[requests[f].uri] = requests[f].atStart

\* C12: of two fetches of one URI that both received 200, each has returned
\* the parsed body of its own response, and the cache entry of the URI holds
\* the etag, lastModified and body of the one that completed last.
C12_LastCompletedWins ==
  \A f, g \in Callers :
    (/\ f # g
     /\ requests[f].pc = "returned" /\ requests[f].statusCode = 200
     /\ requests[g].pc = "returned" /\ requests[g].statusCode = 200
     /\ requests[f].uri = requests[g].uri
     /\ requests[f].body.obj > requests[g].body.obj) =>
      /\ requests[f].body.value = JSONparse(requests[f].resp.body).value
      /\ requests[g].body.value = JSONparse(requests[g].resp.body).value
      /\ httpCacheByURI.store[requests[f].uri] =
           [cached |-> TRUE, etag |-> requests[f].resp.etag,
            lastModified |-> requests[f].resp.lastModified, body |-> requests[f].body]

\* C12 witness: two fetches of one URI overlapped, both received 200 with
\* different validators and bodies, and both have completed.
C12_Witness ==
  \E f, g \in Callers :
    /\ f # g
    /\ requests[f].pc = "returned" /\ requests[f].statusCode = 200
    /\ requests[g].pc = "returned" /\ requests[g].statusCode = 200
    /\ requests[f].uri = requests[g].uri
    /\ requests[f].overlapped /\ requests[g].overlapped
    /\ requests[f].resp.etag # requests[g].resp.etag
    /\ requests[f].body.value # requests[g].body.value

\* ------------------------------------------------------------------------
\* Properties of manifest selection, validation and createRunnable
\* ------------------------------------------------------------------------
\* C13: manifest selection follows the ordered rule: 'beta' with no beta
\* dist-tag fails; 'beta' or 'latest' returns versions[dist-tags[tag]]; any
\* other version string returns versions[version], looked up as it is
\* written; no version returns versions[dist-tags.latest].
C13_SelectionRule ==
  select.pc = "done" =>
    LET version == select.source.schema.version
        metadata == select.metadata
        result == select.result
        At(key) == IF key \in metadata.versions
                     THEN "package.json of " \o key ELSE Undefined
    IN  /\ (version = "beta" /\ metadata.beta \in {Undefined, Null}) => result.threw
        /\ (version = "beta" /\ metadata.beta \notin {Undefined, Null}) =>
             (~result.threw /\ result.value = At(metadata.beta))
        /\ version = "latest" => (~result.threw /\ result.value = At(metadata.latest))
        /\ version \notin {"beta", "latest", Null} =>
             (~result.threw /\ result.value = At(version))
        /\ version = Null => (~result.threw /\ result.value = At(metadata.latest))

\* C13 witness: a caret range was requested from a record that has the version
\* the range names, and the selection returned no manifest.
C13_Witness ==
  /\ select.pc = "done"
  /\ select.source.schema.version = "^1.2.0"
  /\ "1.2.0" \in select.metadata.versions
  /\ select.result = Returns(Undefined)

\* C14: outside the test mode a fetch or fetchByStream that returns yields a
\* package with a truthy pipcook whose source is the source used and whose
\* target paths are set, and one whose manifest is missing or lacks a truthy
\* pipcook fails; a package that failed validation is returned only in the
\* test mode, after a warning.
C14_ValidOrFails ==
  LET lacking == ~valid.pkg.defined \/ valid.pkg.pipcook.kind \in {"undefined", "null", "false"}
      value == valid.result.value
  IN
  /\ (valid.pc = "returned" /\ valid.NODE_ENV # "test") =>
       /\ value.defined
       /\ value.pipcook.kind \in {"string", "object"}
       /\ value.pipcook.source = valid.source /\ valid.source # NoSource
       /\ value.pipcook.target.PYTHONPATH = value.name \o "@" \o value.version
       /\ value.pipcook.target.DESTPATH = value.name \o "@" \o value.version
  /\ (valid.pc \in {"returned", "threw"} /\ valid.NODE_ENV # "test" /\ lacking) =>
       (valid.pc = "threw" /\ valid.result.threw)
  /\ (valid.pc = "returned" /\ (lacking \/ valid.result.warned)) =>
       (valid.NODE_ENV = "test" /\ valid.result.warned /\ value = valid.pkg)

\* C14 witness: outside the test mode a fetch of a package.json without
\* pipcook has failed.
C14_Witness ==
  /\ valid.pc = "threw" /\ valid.entry = "fetch" /\ valid.NODE_ENV = "production"
  /\ valid.pkg.defined /\ valid.pkg.pipcook.kind = "undefined"

\* C15: createRunnable either fails before bootstrapping or hands bootstrap a
\* customEnv of its own making whose NODE_PATH ends in
\* {installDir}/node_modules; bootstrap never receives a customEnv that is
\* missing, undefined or the caller's.
C15_CustomEnvAlwaysInjected ==
  runnable.pc = "bootstrapped" =>
    /\ runnable.config.customEnv.kind = "object"
    /\ runnable.config.customEnv.by = "runtime"
    /\ runnable.config.customEnv.NODE_PATH \in
         { p \o ":" \o runnable.installDir \o "/node_modules" : p \in {"", "/usr/lib"} }

\* ------------------------------------------------------------------------
\* Properties of the two provisioning pipelines
\* ------------------------------------------------------------------------
IsPipSpawn(e) == e.ev = "spawn" /\ e.cmd = "pip"
IsPipClose(e) == e.ev = "close" /\ e.cmd = "pip"
\* the steps of the interpreter-environment pipeline up to the first
\* requirement install, when every one of them succeeds
StepsToVenv ==
  <<Fs("remove", 0), Fs("ensureDir", 0), Fs("writeFile", 0), Fs("access", 0),
    Spawned("venv", 1, ""), Closed("venv", 1, "", 0)>>

\* C16: at most one requirement install of the pipeline is running; they are
\* spawned in the order of the requirement list, each one after the first
\* right after the one before it closed with 0, and none after one closed
\* with another code.
C16_PipsStrictlySequential ==
  LET log == py.log
      spawns == SelectSeq(log, IsPipSpawn)
  IN
  /\ Cardinality(py.live) <= 1
  /\ Len(spawns) <= Len(requirements)
  /\ \A k \in 1..Len(spawns) : spawns[k].n = k /\ spawns[k].arg = requirements[k]
  /\ \A j \in 1..Len(log) :
       IsPipSpawn(log[j]) =>
         /\ j > 1
         /\ log[j - 1] = IF log[j].n = 1
                           THEN Closed("venv", 1, "", 0)
                           ELSE Closed("pip", log[j].n - 1, requirements[log[j].n - 1], 0)
  /\ \A j \in 1..Len(log) :
       (IsPipClose(log[j]) /\ log[j].code # 0) =>
         (j = Len(log) /\ py.pc = "failed" /\ py.live = {})

\* C16 witness: of two requirements the first was installed and the second
\* is being installed.
C16_Witness ==
  /\ py.pc = "pip" /\ py.live = {2}
  /\ Len(requirements) >= 2
  /\ Len(SelectSeq(py.log, IsPipSpawn)) = 2

\* C17: the pipeline wipes and recreates the environment directory, writes
\* requirements.txt, verifies the interpreter and creates the virtual
\* environment in this order; a requirement install is spawned only after
\* all of that succeeded, and a missing interpreter or a failed creation of
\* the virtual environment fails the pipeline with none ever spawned.
C17_FixedOrderGated ==
  LET log == py.log
      n == IF Len(log) < 6 THEN Len(log) ELSE 6
      gated == \E j \in 1..Len(log) :
                 \/ log[j] = Fs("access", 1)
                 \/ (log[j].ev = "close" /\ log[j].cmd = "venv" /\ log[j].code # 0)
  IN
  /\ \A j \in 1..n :
       \/ log[j] = StepsToVenv[j]
       \/ j = Len(log) /\ j = 4 /\ log[j] = Fs("access", 1)
       \/ j = Len(log) /\ j = 6 /\ log[j] = Closed("venv", 1, "", 1)
  /\ (\E j \in 1..Len(log) : IsPipSpawn(log[j])) =>
       (Len(log) > 6 /\ SubSeq(log, 1, 6) = StepsToVenv)
  /\ gated => (py.pc = "failed" /\ py.live = {} /\ SelectSeq(log, IsPipSpawn) = <<>>)
  /\ (call.op = "install" /\ inst.started) =>
       /\ Len(log) = 1 => conda_envs[envDir] = "absent"
       /\ Len(log) = 2 => conda_envs[envDir] = "empty"
       /\ Len(log) \in 3..5 => conda_envs[envDir] = "requirements"
       /\ (Len(log) >= 6 /\ ~gated) => conda_envs[envDir] = "venv"

\* C17 witness: with requirements to install, the creation of the virtual
\* environment has failed after the steps before it succeeded.
C17_Witness ==
  /\ py.pc = "failed"
  /\ Len(requirements) >= 1
  /\ Len(py.log) = 6 /\ py.log[6] = Closed("venv", 1, "", 1)
  /\ conda_envs[envDir] = "requirements"

\* C18 as stated: a package.json with no interpreter dependency to install
\* spawns nothing, touches nothing under conda_envs and does not fail.
C18_NoDependenciesSkipped ==
  (call.op = "install" /\ inst.started /\ Len(inst.pkg.conda.dependencies) = 0) =>
    /\ py.log = <<>> /\ py.pc # "failed"
    /\ conda_envs = inst.envs0

\* C18: a package.json without conda.dependencies skips the pipeline: nothing
\* is spawned, conda_envs stays what it was, and install settles as the module
\* pipeline does; one whose conda.dependencies is there but empty runs the
\* pipeline up to the virtual environment and spawns no requirement install.
C18_AbsentDependenciesSkipped ==
  /\ (call.op = "install" /\ inst.started /\ ~inst.pkg.conda.declared) =>
       /\ py.log = <<>> /\ py.pc = "done" /\ py.live = {}
       /\ conda_envs = inst.envs0
       /\ inst.pc = "returned" <=> node = "done"
       /\ inst.pc = "rejected" <=> node = "failed"
  /\ (call.op = "install" /\ inst.started /\ inst.pkg.conda.declared
        /\ Len(inst.pkg.conda.dependencies) = 0) =>
       /\ py.pc # "pip" /\ SelectSeq(py.log, IsPipSpawn) = <<>>
       /\ py.pc = "done" => (py.log = StepsToVenv /\ conda_envs[envDir] = "venv")

\* C18 witness: an install of a package without conda.dependencies has
\* failed with its module pipeline.
C18_Witness ==
  /\ call.op = "install" /\ inst.started /\ ~inst.pkg.conda.declared
  /\ inst.pc = "rejected" /\ node = "failed"

\* C19: without a package.json in the install root `npm init` is spawned
\* first and the install command only after it closed with 0, a failed init
\* failing the pipeline; with a package.json no init is spawned; the install
\* command is spawned at most once per install call.
C19_InitThenInstallOnce ==
  LET log == inst.nodeLog
      pnpm == Spawned("pnpm", 1, "")
      init == Spawned("init", 1, "")
  IN
  log # <<>> =>
    /\ ~inst.hadManifest =>
         /\ log[1] = init
         /\ \A j \in 1..Len(log) :
              log[j] = pnpm => (j = 3 /\ log[2] = Closed("init", 1, "", 0))
         /\ (Len(log) >= 2 /\ log[2].code # 0) => (Len(log) = 2 /\ node = "failed")
    /\ inst.hadManifest =>
         /\ log[1] = pnpm
         /\ \A j \in 1..Len(log) : log[j] # init
    /\ Cardinality({j \in 1..Len(log) : log[j] = pnpm}) <= 1
    /\ Cardinality({j \in 1..Len(log) : log[j] = init}) <= 1

\* C19 witness: the install root had no package.json, `npm init` closed
\* with 0 and the install command was spawned after it.
C19_Witness ==
  /\ ~inst.hadManifest
  /\ Len(inst.nodeLog) >= 3
  /\ inst.nodeLog[2] = Closed("init", 1, "", 0)
  /\ inst.nodeLog[3] = Spawned("pnpm", 1, "")

\* ------------------------------------------------------------------------
\* Properties of overlapping uninstall calls
\* ------------------------------------------------------------------------
\* C20: after two overlapping uninstall calls, each of one installed plugin
\* and the two plugins different, have both returned, the dependency map of
\* the root manifest holds neither plugin.
C20_NoLostUpdate ==
  \A m1, m2 \in Metas :
    (/\ m1.name # m2.name
     /\ uns[1].pc = "returned" /\ uns[2].pc = "returned"
     /\ uns[1].overlapped /\ uns[2].overlapped
     /\ ~uns[1].isArray /\ uns[1].removed = {m1}
     /\ ~uns[2].isArray /\ uns[2].removed = {m2}) =>
      packageJson.dependencies \cap {m1.name, m2.name} = {}

====
